---- MODULE Spec2Model ----
(***************************************************************************)
(* A model of exdir's object-directory layer (exdir/core/exdir_object.py)  *)
(* and of its Dataset (exdir/core/dataset.py).                             *)
(*                                                                         *)
(* A path is the sequence of its components below the filesystem root:     *)
(* <<>> is "/", <<"a">> is "/a".  The node "exdir.yaml" of a directory is  *)
(* kept apart from the directories: it is absent, a regular file holding a *)
(* YAML document, or (after a raw directory of that name was made) a       *)
(* directory.  A YAML document is kept as what yaml.safe_load makes of it. *)
(* yaml.load without a Loader is taken as PyYAML < 6 runs it (it loads the *)
(* document); os.path and numpy behave as on a POSIX system.               *)
(***************************************************************************)
EXTENDS Integers, Sequences, FiniteSets, TLC

VARIABLES
    dirs,       \* the directories that exist (a set of paths)
    metafile,   \* path of a directory -> the node <directory>/exdir.yaml
    edited,     \* whether another program has rewritten a meta file
    last,       \* the last call on the object-directory layer and its outcome
    creating,   \* a _create_object_directory under way, statement by statement
    payload,         \* the array in the dataset's data.npy
    attributes,      \* the dataset's attribute sidecar (self.attrs)
    meta_plugins,    \* the dataset's meta["plugins"]
    dataset_plugins, \* exdir.core.plugin.dataset_plugins, in registration order
    handle,          \* each Dataset handle's io_mode and _data_memmap
    dlast            \* the last call on a Dataset handle and its outcome

fsvars == <<dirs, metafile, edited, last, creating>>
dsvars == <<payload, attributes, meta_plugins, dataset_plugins, handle, dlast>>
vars == <<dirs, metafile, edited, last, creating,
          payload, attributes, meta_plugins, dataset_plugins, handle, dlast>>

----------------------------------------------------------------------------
(* Bounds of the model *)

\* The longest path of the model, in components.
MaxDepth == 2

----------------------------------------------------------------------------
(* Names of exdir_object.py *)

META_FILENAME == "exdir.yaml"
ATTRIBUTES_FILENAME == "attributes.yaml"
DATASET_TYPENAME == "dataset"
GROUP_TYPENAME == "group"
FILE_TYPENAME == "file"

valid_types == {DATASET_TYPENAME, FILE_TYPENAME, GROUP_TYPENAME}

\* The typenames a caller may pass: the three valid ones and one that is not.
TypeInputs == valid_types \cup {"raw"}

----------------------------------------------------------------------------
(* Paths *)

DirPaths == UNION {[1..n -> {"a"}] : n \in 0..MaxDepth}

\* os.path.dirname of a normalised absolute path; dirname("/") = "/".
dirname(p) == IF p = <<>> THEN <<>> ELSE SubSeq(p, 1, Len(p) - 1)

\* A place in the tree: the directory path `dir`, or its node exdir.yaml.
Loc(d, m) == [dir |-> d, meta |-> m]
At(d) == Loc(d, FALSE)

----------------------------------------------------------------------------
(* YAML documents, as yaml.safe_load returns them *)

Doc(top, exdir, type, version) ==
    [top |-> top, exdir |-> exdir, type |-> type, version |-> version]

Absent == Doc("absent", "-", "-", 0)        \* no node exdir.yaml
DirNode == Doc("directory", "-", "-", 0)    \* exdir.yaml is a directory

\* What another program may leave in a meta file.
ExternalDocs ==
    { Doc("unparseable", "-", "-", 0),      \* safe_load raises YAMLError
      Doc("null", "-", "-", 0),             \* an empty file loads as None
      Doc("list", "-", "-", 0),             \* a top level that is no mapping
      Doc("map", "missing", "-", 0),        \* no 'exdir' key
      Doc("map", "int", "-", 0),            \* exdir: 5
      Doc("map", "null", "-", 0),           \* exdir:
      Doc("map", "str", "-", 0),            \* exdir: hello
      Doc("map", "str_type", "-", 0),       \* exdir: mytype
      Doc("map", "map", "missing", 1),      \* exdir: {version: 1}
      Doc("map", "map", "raw", 1) }         \* a type outside the closed set
    \cup { Doc("map", "map", t, 1) : t \in valid_types }

\* The record _create_object_directory dumps.
NoVersionMetadataRecord(typename) == Doc("map", "map", typename, 0)
MetadataRecord(typename) == Doc("map", "map", typename, 1)

----------------------------------------------------------------------------
(* Queries on the filesystem *)

\* os.path.exists
path_exists(loc) ==
    IF loc.meta
    THEN loc.dir \in dirs /\ metafile[loc.dir] # Absent
    ELSE loc.dir \in dirs

\* is_exdir_object: os.path.isdir
is_exdir_object(loc) ==
    IF loc.meta
    THEN loc.dir \in dirs /\ metafile[loc.dir] = DirNode
    ELSE loc.dir \in dirs

\* The outcome of is_nonraw_object_directory: "True", "False", or the
\* exception that leaves it.
is_nonraw_object_directory(loc) ==
    \* nothing of the model lies below a node exdir.yaml
    IF loc.meta \/ loc.dir \notin dirs THEN "False"
    ELSE LET meta_data == metafile[loc.dir] IN
         IF meta_data = Absent THEN "False"                   \* line 69
         ELSE IF meta_data = DirNode THEN "IsADirectoryError" \* line 71
         ELSE IF meta_data.top = "unparseable" THEN "YAMLError" \* line 72
         ELSE IF meta_data.top # "map" THEN "False"           \* line 74
         ELSE IF meta_data.exdir = "missing" THEN "False"     \* line 77
         \* line 79: "type" not in <int> / <None> raises TypeError
         ELSE IF meta_data.exdir \in {"int", "null"} THEN "TypeError"
         \* line 79: a substring test on a string
         ELSE IF meta_data.exdir = "str" THEN "False"
         \* line 82: <str>["type"] raises TypeError
         ELSE IF meta_data.exdir = "str_type" THEN "TypeError"
         ELSE IF meta_data.type = "missing" THEN "False"      \* line 79
         ELSE IF meta_data.type \notin valid_types THEN "False" \* line 82
         ELSE "True"

\* is_exdir_object(directory) and not is_nonraw_object_directory(directory)
is_raw_object_directory(loc) ==
    IF ~is_exdir_object(loc) THEN "False"
    ELSE LET v == is_nonraw_object_directory(loc) IN
         IF v = "True" THEN "False"
         ELSE IF v = "False" THEN "True"
         ELSE v

\* What a call returns.
Ret(kind, b, p, h) == [kind |-> kind, bool |-> b, path |-> p, handle |-> h]

Obj(root, parent, name, policy) ==
    [root_directory |-> root, parent_path |-> parent, object_name |-> name,
     validate_name |-> policy]

NoObj == Obj(<<>>, <<>>, <<>>, "-")
RetNone == Ret("None", FALSE, <<>>, NoObj)
RetBool(b) == Ret("bool", b, <<>>, NoObj)
RetPath(p) == Ret("path", FALSE, p, NoObj)

\* root_directory: the walk upwards, as [err, ret].
RECURSIVE root_directory(_)
root_directory(path) ==
    IF dirname(path) = path                                   \* line 100
    THEN [err |-> "none", ret |-> RetNone]
    ELSE LET valid == is_nonraw_object_directory(At(path)) IN
         IF valid \notin {"True", "False"}
         THEN [err |-> valid, ret |-> RetNone]
         ELSE IF valid = "False"
         THEN root_directory(dirname(path))                   \* line 104
         ELSE LET meta_data == metafile[path] IN
              \* lines 110-116 cannot take their branches once line 102
              \* has answered True
              IF meta_data.exdir = "missing" \/ meta_data.type = "missing"
              THEN root_directory(dirname(path))
              ELSE IF FILE_TYPENAME # meta_data.type          \* line 117
              THEN root_directory(dirname(path))
              ELSE [err |-> "none", ret |-> RetPath(path)]

----------------------------------------------------------------------------
(* Calls *)

Call(op, d, typ, obj, name, err, ret) ==
    [op |-> op, dir |-> d, typ |-> typ, obj |-> obj, name |-> name,
     err |-> err, ret |-> ret]

\* Where a _create_object_directory(directory, typename) stands: at "mkdir"
\* it is about to run line 41, at "open" line 43, at "dump" line 49; it has
\* "returned", or its process has "crashed".
Creating(pc, directory, typename) == [pc |-> pc, dir |-> directory, typ |-> typename]
NotCreating == Creating("idle", <<>>, "-")

FsInit ==
    /\ dirs = {<<>>}
    /\ metafile = [d \in DirPaths |-> Absent]
    /\ edited = FALSE
    /\ creating = NotCreating
    /\ last = Call("init", <<>>, "-", NoObj, <<>>, "none", RetNone)

\* os.mkdir of a directory path: the parent must be a directory.
mkdir_possible(loc) ==
    IF loc.meta THEN loc.dir \in dirs
    ELSE loc.dir # <<>> /\ dirname(loc.dir) \in dirs

\* A _create_object_directory without its test of line 36: it writes the
\* record into a directory that exists already.
overwriting_create_object_directory(directory, typename) ==
    /\ typename \in valid_types
    /\ directory = <<>> \/ dirname(directory) \in dirs
    /\ dirs' = dirs \cup {directory}
    /\ metafile' = [metafile EXCEPT ![directory] = MetadataRecord(typename)]
    /\ last' = Call("create_object_directory", directory, typename,
                    NoObj, <<>>, "none", RetNone)
    /\ UNCHANGED <<edited, creating, dsvars>>

\* _create_object_directory(directory, typename)
create_object_directory(directory, typename) ==
    LET done(err) ==
            last' = Call("create_object_directory", directory, typename,
                         NoObj, <<>>, err, RetNone)
    IN
    IF path_exists(At(directory))
    THEN done("AlreadyExists") /\ UNCHANGED <<dirs, metafile, edited, creating, dsvars>>
    ELSE IF typename \notin valid_types
    THEN done("InvalidType") /\ UNCHANGED <<dirs, metafile, edited, creating, dsvars>>
    ELSE IF ~mkdir_possible(At(directory))
    THEN done("FileNotFoundError") /\ UNCHANGED <<dirs, metafile, edited, creating, dsvars>>
    ELSE /\ dirs' = dirs \cup {directory}
         /\ metafile' = [metafile EXCEPT ![directory] = MetadataRecord(typename)]
         /\ done("none")
         /\ UNCHANGED <<edited, creating, dsvars>>

call_is_nonraw_object_directory(directory) ==
    LET v == is_nonraw_object_directory(At(directory)) IN
    /\ last' = Call("is_nonraw_object_directory", directory, "-", NoObj, <<>>,
                    IF v \in {"True", "False"} THEN "none" ELSE v,
                    RetBool(v = "True"))
    /\ UNCHANGED <<dirs, metafile, edited, creating, dsvars>>

call_is_raw_object_directory(directory) ==
    LET v == is_raw_object_directory(At(directory)) IN
    /\ last' = Call("is_raw_object_directory", directory, "-", NoObj, <<>>,
                    IF v \in {"True", "False"} THEN "none" ELSE v,
                    RetBool(v = "True"))
    /\ UNCHANGED <<dirs, metafile, edited, creating, dsvars>>

call_root_directory(path) ==
    LET r == root_directory(path) IN
    /\ last' = Call("root_directory", path, "-", NoObj, <<>>, r.err, r.ret)
    /\ UNCHANGED <<dirs, metafile, edited, creating, dsvars>>

\* Another program rewrites the meta file of an existing directory (once in
\* a run of the model).  The filesystem root itself is never made an object
\* directory.
ExternalEdit(directory, doc) ==
    /\ ~edited
    /\ directory \in dirs
    /\ directory # <<>>
    /\ metafile[directory] # DirNode
    /\ metafile' = [metafile EXCEPT ![directory] = doc]
    /\ edited' = TRUE
    /\ last' = Call("external_edit", directory, "-", NoObj, <<>>, "none", RetNone)
    /\ UNCHANGED <<dirs, creating, dsvars>>

----------------------------------------------------------------------------
(* Object: create_raw and require_raw *)

\* The names a caller may pass, as their components: "", "..", "a",
\* "exdir.yaml" and "a/a".
NameArgs == {<<>>, <<"..">>, <<"a">>, <<META_FILENAME>>, <<"a", "a">>}

\* Object.directory: os.path.join(root_directory, parent_path, object_name);
\* an empty parent_path or object_name adds no component.
directory_of(obj) == obj.root_directory \o obj.parent_path \o obj.object_name

\* The handles the calls are made on.
Objects ==
    { Obj(<<>>, <<>>, <<>>, v) : v \in {"thorough", "none"} }
    \cup { Obj(<<>>, p, <<"a">>, v) : p \in DirPaths, v \in {"thorough", "none"} }

\* filename_validation.thorough, as far as the specification fixes it: it
\* rejects the empty name, "." and "..", a name with a path separator and the
\* reserved sidecar filenames.
thorough(parent_directory, name) ==
    /\ Len(name) = 1
    /\ name[1] \notin {".", "..", META_FILENAME, ATTRIBUTES_FILENAME}

\* _assert_valid_name: container.validate_name(container.directory, name)
assert_valid_name(name, container) ==
    IF container.validate_name = "none" THEN TRUE
    ELSE thorough(directory_of(container), name)

\* os.path.join(self.directory, name), resolved to the place it denotes
\* (self.directory exists).
join_directory(directory, name) ==
    IF name = <<>> THEN At(directory)
    ELSE IF name = <<"..">> THEN At(dirname(directory))
    ELSE IF name[Len(name)] = META_FILENAME
    THEN Loc(directory \o SubSeq(name, 1, Len(name) - 1), TRUE)
    ELSE At(directory \o name)

RawHandle(obj, name) ==
    Ret("Raw", FALSE, <<>>,
        Obj(obj.root_directory, obj.parent_path, name, "thorough"))

\* A create_raw that looks for the directory before it validates the name.
exists_first_create_raw_outcome(obj, name) ==
    LET directory_name == join_directory(directory_of(obj), name) IN
    IF path_exists(directory_name)
    THEN [err |-> "AlreadyExists", made |-> FALSE, ret |-> RetNone]
    ELSE IF ~assert_valid_name(name, obj)
    THEN [err |-> "InvalidName", made |-> FALSE, ret |-> RetNone]
    ELSE IF ~mkdir_possible(directory_name)
    THEN [err |-> "FileNotFoundError", made |-> FALSE, ret |-> RetNone]
    ELSE [err |-> "none", made |-> TRUE, ret |-> RawHandle(obj, name)]

\* Object.create_raw, as [err, made, ret]: `made` says os.mkdir ran.
create_raw_outcome(obj, name) ==
    LET directory_name == join_directory(directory_of(obj), name) IN
    IF ~assert_valid_name(name, obj)                          \* line 218
    THEN [err |-> "InvalidName", made |-> FALSE, ret |-> RetNone]
    ELSE IF path_exists(directory_name)                       \* line 220
    THEN [err |-> "AlreadyExists", made |-> FALSE, ret |-> RetNone]
    ELSE IF ~mkdir_possible(directory_name)                   \* line 222
    THEN [err |-> "FileNotFoundError", made |-> FALSE, ret |-> RetNone]
    ELSE [err |-> "none", made |-> TRUE, ret |-> RawHandle(obj, name)]

\* Object.require_raw, as [err, made, ret].
require_raw_outcome(obj, name) ==
    LET directory_name == join_directory(directory_of(obj), name) IN
    IF path_exists(directory_name)                            \* line 230
    THEN LET v == is_nonraw_object_directory(directory_name) IN
         IF v = "True"                                        \* line 232
         THEN [err |-> "TypeConflict", made |-> FALSE, ret |-> RetNone]
         ELSE IF v = "False"                                  \* line 233
         THEN [err |-> "none", made |-> FALSE,
               ret |-> Ret("str", FALSE, directory_of(obj) \o name, NoObj)]
         ELSE [err |-> v, made |-> FALSE, ret |-> RetNone]
    ELSE create_raw_outcome(obj, name)                        \* line 235

\* The filesystem after os.mkdir(directory_name), when `made`.
apply_mkdir(made, loc) ==
    IF ~made THEN UNCHANGED <<dirs, metafile>>
    ELSE IF loc.meta
    THEN /\ metafile' = [metafile EXCEPT ![loc.dir] = DirNode]
         /\ UNCHANGED dirs
    ELSE /\ dirs' = dirs \cup {loc.dir}
         /\ UNCHANGED metafile

\* A handle is held on a directory that exists, and the call stays within
\* the paths of the model.
CallableOn(obj, name) ==
    /\ directory_of(obj) \in DirPaths
    /\ directory_of(obj) \in dirs
    /\ join_directory(directory_of(obj), name).dir \in DirPaths

create_raw(obj, name) ==
    /\ CallableOn(obj, name)
    /\ LET r == create_raw_outcome(obj, name) IN
       /\ last' = Call("create_raw", directory_of(obj), "-", obj, name, r.err, r.ret)
       /\ apply_mkdir(r.made, join_directory(directory_of(obj), name))
    /\ UNCHANGED <<edited, creating, dsvars>>

require_raw(obj, name) ==
    /\ CallableOn(obj, name)
    /\ LET r == require_raw_outcome(obj, name) IN
       /\ last' = Call("require_raw", directory_of(obj), "-", obj, name, r.err, r.ret)
       /\ apply_mkdir(r.made, join_directory(directory_of(obj), name))
    /\ UNCHANGED <<edited, creating, dsvars>>

Next ==
    \/ \E d \in DirPaths, t \in TypeInputs : create_object_directory(d, t)
    \/ \E d \in DirPaths : call_is_nonraw_object_directory(d)
    \/ \E d \in DirPaths : call_is_raw_object_directory(d)
    \/ \E d \in DirPaths : call_root_directory(d)
    \/ \E d \in DirPaths, doc \in ExternalDocs : ExternalEdit(d, doc)

----------------------------------------------------------------------------
(* The claims on the object-directory layer *)

\* Every path that exists: the directories, and the nodes exdir.yaml.
AllNodes ==
    {At(d) : d \in dirs} \cup {Loc(d, TRUE) : d \in {x \in dirs : metafile[x] # Absent}}

\* C1: after a successful _create_object_directory(d, t), t is one of
\* dataset, group, file, is_nonraw_object_directory(d) is true,
\* is_raw_object_directory(d) is false and the stored record is
\* {type: t, version: 1}; every existing directory without a meta file is
\* not a non-raw object directory and is a raw one.
C1_CreatedIsManaged ==
    /\ (last.op = "create_object_directory" /\ last.err = "none") =>
          /\ last.typ \in {"dataset", "group", "file"}
          /\ is_nonraw_object_directory(At(last.dir)) = "True"
          /\ is_raw_object_directory(At(last.dir)) = "False"
          /\ metafile[last.dir] = Doc("map", "map", last.typ, 1)
    /\ \A d \in dirs :
          metafile[d] = Absent =>
             /\ is_nonraw_object_directory(At(d)) = "False"
             /\ is_raw_object_directory(At(d)) = "True"
    /\ (last.op = "is_nonraw_object_directory" /\ last.dir \in dirs
            /\ metafile[last.dir] = Absent) =>
          (last.err = "none" /\ last.ret = RetBool(FALSE))
    /\ (last.op = "is_raw_object_directory" /\ last.dir \in dirs
            /\ metafile[last.dir] = Absent) =>
          (last.err = "none" /\ last.ret = RetBool(TRUE))

\* A nested object directory was just created, below a directory that has no
\* meta file.
C1_Witness ==
    /\ last.op = "create_object_directory"
    /\ last.err = "none"
    /\ Len(last.dir) = 2
    /\ metafile[<<>>] = Absent

\* C2: _create_object_directory fails with AlreadyExists whenever the
\* directory is present, whatever the typename, and with InvalidType whenever
\* the directory is absent and the typename is not valid; both failures leave
\* the directories and the meta files as they were.
C2_CreateFailsCleanly ==
    [][ last'.op = "create_object_directory" =>
          /\ path_exists(At(last'.dir)) =>
                (last'.err = "AlreadyExists" /\ UNCHANGED <<dirs, metafile>>)
          /\ (~path_exists(At(last'.dir)) /\ last'.typ \notin valid_types) =>
                (last'.err = "InvalidType" /\ UNCHANGED <<dirs, metafile>>)
          /\ last'.err \in {"AlreadyExists", "InvalidType"} =>
                UNCHANGED <<dirs, metafile>>
      ]_vars

\* A call on an existing object directory with an invalid typename failed
\* with AlreadyExists.
C2_Witness ==
    /\ last.op = "create_object_directory"
    /\ last.err = "AlreadyExists"
    /\ last.typ \notin valid_types
    /\ metafile[last.dir] \in {MetadataRecord(t) : t \in valid_types}

\* The contents C3 lists: unparseable, empty, a top level that is no mapping,
\* no 'exdir' key, an 'exdir' value that is no mapping, no 'type' key, a type
\* outside the closed set.
Malformed(doc) ==
    /\ doc \notin {Absent, DirNode}
    /\ \/ doc.top # "map"
       \/ doc.exdir # "map"
       \/ doc.type \notin valid_types

\* C3: is_nonraw_object_directory never raises, whatever the meta file holds:
\* for each malformed content it returns false, and is_raw_object_directory
\* then returns true for that existing directory.
C3_MalformedIsRawNeverRaises ==
    /\ last.op \in {"is_nonraw_object_directory", "is_raw_object_directory"} =>
          last.err = "none"
    /\ (last.op = "is_nonraw_object_directory" /\ last.dir \in dirs
            /\ Malformed(metafile[last.dir])) =>
          last.ret = RetBool(FALSE)
    /\ (last.op = "is_raw_object_directory" /\ last.dir \in dirs
            /\ Malformed(metafile[last.dir])) =>
          last.ret = RetBool(TRUE)

\* The directories that are managed objects of type 'file': a well-formed
\* record of that type.
IsFileObject(d) ==
    /\ d \in dirs
    /\ metafile[d] \notin {Absent, DirNode}
    /\ metafile[d].top = "map"
    /\ metafile[d].exdir = "map"
    /\ metafile[d].type = FILE_TYPENAME

\* path and its ancestors, the filesystem root among them
Ancestors(path) == {SubSeq(path, 1, n) : n \in 0..Len(path)}

\* C4: root_directory(p) returns the nearest directory among p and its
\* ancestors that is a managed object of type 'file', None exactly when there
\* is none, and no raw, malformed, group or dataset directory on the way
\* aborts the walk.
C4_RootIsNearestFile ==
    last.op = "root_directory" =>
       LET files == {d \in Ancestors(last.dir) : IsFileObject(d)} IN
       /\ last.err = "none"
       /\ files = {} <=> last.ret.kind = "None"
       /\ files # {} =>
             /\ last.ret.kind = "path"
             /\ last.ret.path \in files
             /\ \A d \in files : Len(d) <= Len(last.ret.path)

\* The meta files another program leaves in the runs of RawSpec: one that
\* is_nonraw_object_directory answers False for, one that it raises on.
RawDocs == {Doc("null", "-", "-", 0), Doc("map", "int", "-", 0)}

RawNext ==
    \/ \E d \in DirPaths, t \in valid_types : create_object_directory(d, t)
    \/ \E d \in DirPaths, doc \in RawDocs : ExternalEdit(d, doc)
    \/ \E obj \in Objects, name \in NameArgs : create_raw(obj, name)
    \/ \E obj \in Objects, name \in NameArgs : require_raw(obj, name)

----------------------------------------------------------------------------
(* The claims on create_raw and require_raw *)

\* the place a call's name denotes, and what the handle it returned denotes
TargetOf(call) == join_directory(directory_of(call.obj), call.name)

\* C5: require_raw(name) creates an absent directory through create_raw and
\* returns a RawHandle; on an existing raw directory it returns a RawHandle
\* to that directory and changes nothing; on an existing managed object it
\* fails with TypeConflict and changes nothing.
C5_RequireRawIdempotent ==
    [][ \A obj \in Objects, name \in NameArgs :
        (last'.op = "require_raw" /\ last'.obj = obj /\ last'.name = name) =>
          LET t == join_directory(directory_of(obj), name) IN
          /\ ~path_exists(t) =>
                /\ last'.err = create_raw_outcome(last'.obj, last'.name).err
                /\ last'.err = "none" => (last'.ret.kind = "Raw" /\ path_exists(t)')
          /\ (path_exists(t) /\ is_nonraw_object_directory(t) = "False") =>
                /\ last'.err = "none"
                /\ last'.ret.kind = "Raw"
                /\ UNCHANGED <<dirs, metafile>>
          /\ (path_exists(t) /\ is_nonraw_object_directory(t) = "True") =>
                /\ last'.err = "TypeConflict"
                /\ UNCHANGED <<dirs, metafile>>
      ]_vars

\* C6: create_raw(name) validates the name first, fails with AlreadyExists
\* and changes nothing when the target exists, and otherwise creates exactly
\* one new directory, at <object directory>/name, with no meta file in it:
\* is_raw_object_directory is true and is_nonraw_object_directory false for
\* it right afterwards.
C6_CreateRawMakesOnePlainDirectory ==
    [][ \A obj \in Objects, name \in NameArgs :
        (last'.op = "create_raw" /\ last'.obj = obj /\ last'.name = name) =>
          LET t == join_directory(directory_of(obj), name) IN
          /\ ~assert_valid_name(last'.name, last'.obj) =>
                (last'.err = "InvalidName" /\ UNCHANGED <<dirs, metafile>>)
          /\ (assert_valid_name(last'.name, last'.obj) /\ path_exists(t)) =>
                (last'.err = "AlreadyExists" /\ UNCHANGED <<dirs, metafile>>)
          /\ last'.err # "none" => UNCHANGED <<dirs, metafile>>
          /\ last'.err = "none" =>
                /\ assert_valid_name(last'.name, last'.obj)
                /\ ~path_exists(t)
                /\ AllNodes' = AllNodes \cup {t}
                /\ \A d \in dirs : metafile'[d] = metafile[d] \/ Loc(d, TRUE) = t
                /\ is_exdir_object(t)'
                /\ is_raw_object_directory(t)' = "True"
                /\ is_nonraw_object_directory(t)' = "False"
                /\ ~path_exists(Loc(t.dir, TRUE))' \/ t.meta
      ]_vars

\* create_raw has just made a directory below an object directory that is
\* not the root of the store.
C6_Witness ==
    /\ last.op = "create_raw"
    /\ last.err = "none"
    /\ last.obj.object_name # <<>>
    /\ TargetOf(last).dir \in dirs

----------------------------------------------------------------------------
(* _create_object_directory, one statement at a time *)

\* A meta file that holds a whole record although nothing was dumped yet.
placeholder_meta_file == MetadataRecord(GROUP_TYPENAME)

\* line 43: open(meta_filename, "w") leaves an empty file, which
\* yaml.safe_load reads as None.
truncated_meta_file == Doc("null", "-", "-", 0)

\* lines 36-40: the two tests
create_begin(directory, typename) ==
    /\ creating.pc \in {"idle", "returned", "crashed"}
    /\ LET raised(err) ==
               /\ last' = Call("create_object_directory", directory, typename,
                               NoObj, <<>>, err, RetNone)
               /\ UNCHANGED creating
       IN
       IF path_exists(At(directory)) THEN raised("AlreadyExists")
       ELSE IF typename \notin valid_types THEN raised("InvalidType")
       ELSE /\ creating' = Creating("mkdir", directory, typename)
            /\ UNCHANGED last
    /\ UNCHANGED <<dirs, metafile, edited, dsvars>>

\* line 41: os.mkdir(directory)
create_mkdir ==
    /\ creating.pc = "mkdir"
    /\ IF mkdir_possible(At(creating.dir))
       THEN /\ dirs' = dirs \cup {creating.dir}
            /\ creating' = [creating EXCEPT !.pc = "open"]
            /\ UNCHANGED last
       ELSE /\ last' = Call("create_object_directory", creating.dir, creating.typ,
                            NoObj, <<>>, "FileNotFoundError", RetNone)
            /\ creating' = [creating EXCEPT !.pc = "returned"]
            /\ UNCHANGED dirs
    /\ UNCHANGED <<metafile, edited, dsvars>>

\* line 43: open(meta_filename, "w")
create_open ==
    /\ creating.pc = "open"
    /\ metafile' = [metafile EXCEPT ![creating.dir] = truncated_meta_file]
    /\ creating' = [creating EXCEPT !.pc = "dump"]
    /\ UNCHANGED <<dirs, edited, last, dsvars>>

\* lines 44-52: the record is dumped and the file closed; the few bytes of
\* the record leave the file object's buffer in one write.
create_dump ==
    /\ creating.pc = "dump"
    /\ metafile' = [metafile EXCEPT ![creating.dir] = MetadataRecord(creating.typ)]
    /\ creating' = [creating EXCEPT !.pc = "returned"]
    /\ last' = Call("create_object_directory", creating.dir, creating.typ,
                    NoObj, <<>>, "none", RetNone)
    /\ UNCHANGED <<dirs, edited, dsvars>>

\* The process stops between two statements.
create_crash ==
    /\ creating.pc \in {"mkdir", "open", "dump"}
    /\ creating' = [creating EXCEPT !.pc = "crashed"]
    /\ UNCHANGED <<dirs, metafile, edited, last, dsvars>>

CrashNext ==
    \/ \E d \in DirPaths, t \in TypeInputs : create_begin(d, t)
    \/ create_mkdir
    \/ create_open
    \/ create_dump
    \/ create_crash
    \/ \E d \in DirPaths : call_is_nonraw_object_directory(d)
    \/ \E d \in DirPaths : call_is_raw_object_directory(d)

\* C11: at every point of _create_object_directory(d, t), and after a crash
\* at any of them, d is absent, or classified raw, or classified managed
\* with the record of exactly type t: before os.mkdir it is absent, between
\* os.mkdir and the dump (no meta file, or an empty one) it is raw.
C11_CrashLeavesRawOrTyped ==
    creating.pc # "idle" =>
       LET d == creating.dir
           absent == ~path_exists(At(d))
           raw == /\ is_raw_object_directory(At(d)) = "True"
                  /\ is_nonraw_object_directory(At(d)) = "False"
           managed == /\ is_nonraw_object_directory(At(d)) = "True"
                      /\ is_raw_object_directory(At(d)) = "False"
                      /\ metafile[d] = Doc("map", "map", creating.typ, 1)
       IN
       /\ absent \/ raw \/ managed
       /\ creating.pc = "mkdir" => absent
       /\ creating.pc \in {"open", "dump"} => raw

\* The process crashed after it had opened the meta file: the directory is
\* there with an empty exdir.yaml.
C11_Witness ==
    /\ creating.pc = "crashed"
    /\ creating.dir \in dirs
    /\ metafile[creating.dir] = Doc("null", "-", "-", 0)

----------------------------------------------------------------------------
(* Dataset (dataset.py): arrays, selectors and plugins *)

\* The longest first axis of an array of the model.
MaxLen == 2

Vals == {0, 1}

READ_WRITE == "READ_WRITE"
READ_ONLY == "READ_ONLY"

Handles == {"A"}

\* A numpy array: its shape, () or (n,), and its elements in C order.
Arr(shape, flat) == [shape |-> shape, flat |-> flat]

\* The arrays handed to the calls: scalars, and np.full((n,), v).  Indexed
\* writes make the other contents.
Arrays ==
    { Arr(<<>>, <<v>>) : v \in Vals }
    \cup { Arr(<<n>>, [i \in 1..n |-> v]) : n \in 1..MaxLen, v \in Vals }
NoArr == Arr(<<>>, <<>>)

\* An index expression: ":", "..." or an integer.
Sel(kind, i) == [kind |-> kind, i |-> i]
Slice == Sel("slice", 0)
Ellipsis == Sel("ellipsis", 0)
Selectors == {Slice, Ellipsis} \cup {Sel("index", i) : i \in 0..MaxLen}
NoSel == Sel("none", 0)

Size(shape) == IF shape = <<>> THEN 1 ELSE shape[1]

\* numpy's a[args] on an array of rank 1, as [err, values]
np_getitem(a, args) ==
    IF args.kind = "index"
    THEN IF args.i < Size(a.shape)
         THEN [err |-> "none", values |-> Arr(<<>>, <<a.flat[args.i + 1]>>)]
         ELSE [err |-> "IndexError", values |-> NoArr]
    ELSE [err |-> "none", values |-> a]

\* numpy's a[args] = value, as [err, flat]: the elements of a afterwards.  A
\* value of one element is broadcast; any other must have the selection's shape.
np_setitem(a, args, value) ==
    LET fail(e) == [err |-> e, flat |-> a.flat]
        fill(v) == [i \in 1..Len(a.flat) |->
                      IF Len(v.flat) = 1 THEN v.flat[1] ELSE v.flat[i]]
    IN
    IF a.shape = <<>>
    THEN IF args.kind # "ellipsis" THEN fail("IndexError")
         ELSE IF Len(value.flat) # 1 THEN fail("ValueError")
         ELSE [err |-> "none", flat |-> fill(value)]
    ELSE IF args.kind = "index"
    THEN IF args.i >= Size(a.shape) THEN fail("IndexError")
         ELSE IF Len(value.flat) # 1 THEN fail("ValueError")
         ELSE [err |-> "none",
               flat |-> [a.flat EXCEPT ![args.i + 1] = value.flat[1]]]
    ELSE IF Len(value.flat) # 1 /\ value.shape # a.shape THEN fail("ValueError")
    ELSE [err |-> "none", flat |-> fill(value)]

\* A mapping with string keys (a dict).
EmptyMap == [k \in {} |-> "-"]
MapOf(keys, v) == [k \in keys |-> v]
\* An update that keeps nothing of the mapping it updates.
replacing_update(a, b) == b

\* dict.update
update(a, b) ==
    [k \in DOMAIN a \cup DOMAIN b |-> IF k \in DOMAIN b THEN b[k] ELSE a[k]]

\* The plugins of the model, by IDENTIFIER:
\*   flip  stores the complement of every element and notes it in the
\*         attribute "enc"; it reads the complement back when "enc" is set;
\*         it reports required = true;
\*   tag   leaves the value alone and adds the attribute "tag"; required = false;
\*   zero  leaves the value alone when written and reads every element as 0;
\*         it reports required = true for a value that holds a 1.
PluginIds == {"flip", "tag", "zero"}

complement(data) == Arr(data.shape, [i \in 1..Len(data.flat) |-> 1 - data.flat[i]])
zeros(data) == Arr(data.shape, [i \in 1..Len(data.flat) |-> 0])

\* plugin.prepare_write(data): (data, plugin_attrs, plugin_meta)
plugin_prepare_write(plugin, data) ==
    IF plugin = "flip"
    THEN [data |-> complement(data), attrs |-> MapOf({"enc"}, "flip"),
          meta |-> [required |-> TRUE]]
    ELSE IF plugin = "tag"
    THEN [data |-> data, attrs |-> MapOf({"tag"}, "t"),
          meta |-> [required |-> FALSE]]
    ELSE [data |-> data, attrs |-> EmptyMap,
          meta |-> [required |-> \E i \in 1..Len(data.flat) : data.flat[i] = 1]]

\* plugin.prepare_read(values, attrs)
plugin_prepare_read(plugin, values, attrs) ==
    IF plugin = "flip"
    THEN IF "enc" \in DOMAIN attrs THEN complement(values) ELSE values
    ELSE IF plugin = "tag" THEN values
    ELSE zeros(values)

\* The plugin lists that may be registered.
Registries ==
    { <<>>, <<"flip">>, <<"tag">>, <<"tag", "flip">>,
      <<"zero", "flip">>, <<"flip", "zero">> }

\* _prepare_write(data), lines 10-16, over the plugins from the k-th on:
\* [data, attrs, meta].
RECURSIVE prepare_write_from(_, _, _, _)
prepare_write_from(k, data, attrs, meta) ==
    IF k > Len(dataset_plugins)
    THEN [data |-> data, attrs |-> attrs, meta |-> meta]
    ELSE LET plugin == dataset_plugins[k]
             r == plugin_prepare_write(plugin, data)
         IN prepare_write_from(
                k + 1, r.data, update(attrs, r.attrs),
                IF r.meta.required                            \* line 15
                THEN update(meta, MapOf({plugin}, r.meta))
                ELSE meta)

\* A _prepare_write that records every plugin, required or not.
prepare_write_recording_all(data) ==
    LET r == prepare_write_from(1, data, EmptyMap, EmptyMap) IN
    [data |-> r.data, attrs |-> r.attrs,
     meta |-> [i \in {dataset_plugins[k] : k \in 1..Len(dataset_plugins)} |->
                 plugin_prepare_write(i, data).meta]]

\* _prepare_write(data); np.asarray (line 19) keeps the arrays of the model.
prepare_write(data) == prepare_write_from(1, data, EmptyMap, EmptyMap)

\* Read-side hooks that run from the last plugin to the first.
RECURSIVE reversed_prepare_read_from(_, _)
reversed_prepare_read_from(k, values) ==
    IF k > Len(dataset_plugins) THEN values
    ELSE plugin_prepare_read(dataset_plugins[k],
                             reversed_prepare_read_from(k + 1, values), attributes)

\* lines 69-70: the read-side hooks over the plugins from the k-th on
RECURSIVE prepare_read_from(_, _)
prepare_read_from(k, values) ==
    IF k > Len(dataset_plugins) THEN values
    ELSE prepare_read_from(
             k + 1, plugin_prepare_read(dataset_plugins[k], values, attributes))

----------------------------------------------------------------------------
(* Dataset handles *)

\* _data_memmap: None, or the mapping of data.npy with the shape it was
\* loaded with; the elements are those of the file.
NoMap == [mapped |-> FALSE, shape |-> <<>>]
MapOfShape(shape) == [mapped |-> TRUE, shape |-> shape]

\* What a call on a handle did: `hooks` are the plugins whose hook ran, in
\* order; `saved` says np.save ran; `loads` counts the _reload_data calls.
DCall(op, h, sel, value, err, ret, hooks, saved, loads) ==
    [op |-> op, h |-> h, sel |-> sel, value |-> value, err |-> err,
     ret |-> ret, hooks |-> hooks, saved |-> saved, loads |-> loads]

\* Dataset.__init__ (lines 38-53) of a handle opened with io_mode
new_handle(io_mode) ==
    [io_mode |-> io_mode,
     mmap_mode |-> IF io_mode = READ_ONLY THEN "r" ELSE "r+",   \* lines 48-51
     data_memmap |-> NoMap]                                     \* line 47

\* A dataset as create_dataset leaves it, and the handles `opened` on it.
DsInitWith(opened) ==
    /\ payload \in Arrays
    /\ attributes = EmptyMap
    /\ meta_plugins = EmptyMap
    /\ dataset_plugins = <<>>
    /\ handle \in [opened -> {new_handle(m) : m \in {READ_WRITE, READ_ONLY}}]
    /\ dlast = DCall("init", "A", NoSel, NoArr, "none", NoArr, <<>>, FALSE, 0)

DsInit == DsInitWith(Handles)

\* A self._data that loads the file at every access.
reloading_data_of(h) == MapOfShape(payload.shape)

\* self._data (lines 153-157): the mapping, loaded on the first access
data_of(h) ==
    IF handle[h].data_memmap.mapped THEN handle[h].data_memmap
    ELSE MapOfShape(payload.shape)
lazy_loads(h) == IF handle[h].data_memmap.mapped THEN 0 ELSE 1

\* The array seen through a mapping m: the elements of the file as it is
\* now, in the shape the mapping was loaded with.  Past the end of a file
\* that another handle has saved shorter, the mapped page reads as zeros.
mapped_array(m) ==
    Arr(m.shape, [i \in 1..Size(m.shape) |->
                    IF i <= Len(payload.flat) THEN payload.flat[i] ELSE 0])

\* The elements of the file after those of a mapped array were set to
\* `flat`: what lies past the end of the file is not stored.
written_back(flat) ==
    [i \in 1..Len(payload.flat) |->
        IF i <= Len(flat) THEN flat[i] ELSE payload.flat[i]]

\* A __getitem__ without the test of lines 61-67.
unchecked_getitem_outcome(h, args) ==
    LET a == mapped_array(data_of(h))
        got == IF Len(a.shape) = 0
               THEN [err |-> "none", values |-> a]
               ELSE np_getitem(a, args)
    IN
    IF got.err # "none"
    THEN [err |-> got.err, values |-> NoArr, hooks |-> <<>>]
    ELSE [err |-> "none", values |-> prepare_read_from(1, got.values),
          hooks |-> dataset_plugins]

\* Dataset.__getitem__, as [err, values, hooks]
getitem_outcome(h, args) ==
    LET a == mapped_array(data_of(h))
        got == IF Len(a.shape) = 0                            \* line 56
               THEN [err |-> "none", values |-> a]
               ELSE np_getitem(a, args)                       \* line 59
        enabled_plugins == {dataset_plugins[k] : k \in 1..Len(dataset_plugins)}
    IN
    IF got.err # "none"
    THEN [err |-> got.err, values |-> NoArr, hooks |-> <<>>]
    ELSE IF \E plugin_name \in DOMAIN meta_plugins :          \* lines 62-64
               plugin_name \notin enabled_plugins
    THEN [err |-> "PluginUnavailable", values |-> NoArr, hooks |-> <<>>]
    ELSE [err |-> "none", values |-> prepare_read_from(1, got.values),
          hooks |-> dataset_plugins]

getitem(h, args) ==
    LET r == getitem_outcome(h, args) IN
    /\ dlast' = DCall("getitem", h, args, NoArr, r.err, r.values, r.hooks,
                      FALSE, lazy_loads(h))
    /\ handle' = [handle EXCEPT ![h].data_memmap = data_of(h)]
    /\ UNCHANGED <<payload, attributes, meta_plugins, dataset_plugins, fsvars>>

\* `n` runs of the read hooks: the plugins whose prepare_read ran, in order
RECURSIVE hook_runs(_)
hook_runs(n) == IF n = 0 THEN <<>> ELSE dataset_plugins \o hook_runs(n - 1)

\* Dataset.__len__ (lines 136-140), as [err, n, reads]: self.shape is
\* self[:].shape (line 114), read once for the test and once for the result.
len_outcome(h) ==
    LET whole == getitem_outcome(h, Slice) IN
    IF whole.err # "none" THEN [err |-> whole.err, n |-> 0, reads |-> 0]
    ELSE IF Len(whole.values.shape) = 0                       \* line 138
    THEN [err |-> "ScalarLengthError", n |-> 0, reads |-> 1]
    ELSE [err |-> "none", n |-> whole.values.shape[1], reads |-> 2]

call_len(h) ==
    LET r == len_outcome(h) IN
    /\ dlast' = DCall("len", h, NoSel, NoArr, r.err, Arr(<<>>, <<r.n>>),
                      hook_runs(r.reads), FALSE, lazy_loads(h))
    /\ handle' = [handle EXCEPT ![h].data_memmap = data_of(h)]
    /\ UNCHANGED <<payload, attributes, meta_plugins, dataset_plugins, fsvars>>

\* An iteration that yields the elements of the mapped array as they are.
raw_iter_outcome(h) ==
    LET a == mapped_array(data_of(h)) IN
    IF Len(a.shape) = 0
    THEN [err |-> "ScalarIterationError", yields |-> <<>>, reads |-> 1]
    ELSE [err |-> "none", yields |-> a.flat, reads |-> 2]

\* Dataset.__iter__ (lines 142-151) run to its end, as [err, yields, reads]:
\* `yields` holds the element of each value yielded (line 151: self[i]).
iter_outcome(h) ==
    LET whole == getitem_outcome(h, Slice) IN
    IF whole.err # "none" THEN [err |-> whole.err, yields |-> <<>>, reads |-> 0]
    ELSE IF Len(whole.values.shape) = 0                       \* line 147
    THEN [err |-> "ScalarIterationError", yields |-> <<>>, reads |-> 1]
    ELSE LET n == whole.values.shape[1] IN                    \* line 150
         [err |-> "none",
          yields |-> [i \in 1..n |->
                        getitem_outcome(h, Sel("index", i - 1)).values.flat[1]],
          reads |-> 2 + n]

call_iter(h) ==
    LET r == iter_outcome(h) IN
    /\ dlast' = DCall("iter", h, NoSel, NoArr, r.err,
                      Arr(<<Len(r.yields)>>, r.yields),
                      hook_runs(r.reads), FALSE, lazy_loads(h))
    /\ handle' = [handle EXCEPT ![h].data_memmap = data_of(h)]
    /\ UNCHANGED <<payload, attributes, meta_plugins, dataset_plugins, fsvars>>

\* A __setitem__ without the test of line 76.
unguarded_setitem_body(op, h, args, value, preloaded) ==
    LET w == prepare_write(value)
        m == data_of(h)
        r == np_setitem(mapped_array(m), args, w.data)
    IN
    /\ attributes' = update(attributes, w.attrs)
    /\ meta_plugins' = w.meta
    /\ handle' = [handle EXCEPT ![h].data_memmap = m]
    /\ payload' = Arr(payload.shape, written_back(r.flat))
    /\ dlast' = DCall(op, h, args, value, r.err, NoArr, dataset_plugins,
                      FALSE, lazy_loads(h))

\* Dataset.__setitem__(args, value), lines 75-83: the sidecars are written
\* (lines 80-81) before the mapped array (line 83).  `preloaded` says the
\* caller has read self._data already.
setitem_body(op, h, args, value, preloaded) ==
    IF handle[h].io_mode = READ_ONLY                          \* line 76
    THEN /\ dlast' = DCall(op, h, args, value, "ReadOnlyViolation", NoArr,
                           <<>>, FALSE, IF preloaded THEN lazy_loads(h) ELSE 0)
         /\ UNCHANGED <<payload, attributes, meta_plugins>>
         /\ handle' = [handle EXCEPT ![h].data_memmap =
                          IF preloaded THEN data_of(h) ELSE @]
    ELSE LET w == prepare_write(value)                        \* line 79
             m == data_of(h)
             r == np_setitem(mapped_array(m), args, w.data)   \* line 83
         IN
         /\ attributes' = update(attributes, w.attrs)         \* line 80
         /\ meta_plugins' = w.meta                            \* line 81
         /\ handle' = [handle EXCEPT ![h].data_memmap = m]
         /\ payload' = Arr(payload.shape, written_back(r.flat))
         /\ dlast' = DCall(op, h, args, value, r.err, NoArr, dataset_plugins,
                           FALSE, lazy_loads(h))

setitem(h, args, value) ==
    /\ setitem_body("setitem", h, args, value, FALSE)
    /\ UNCHANGED <<dataset_plugins, fsvars>>

\* A _reset_data that hands the new mapping to every handle that has one.
shared_reset_data(op, h, value, loads) ==
    LET w == prepare_write(value) IN
    /\ payload' = w.data
    /\ attributes' = update(attributes, w.attrs)
    /\ meta_plugins' = w.meta
    /\ handle' = [x \in DOMAIN handle |->
                     IF x = h \/ handle[x].data_memmap.mapped
                     THEN [handle[x] EXCEPT !.data_memmap = MapOfShape(w.data.shape)]
                     ELSE handle[x]]
    /\ dlast' = DCall(op, h, NoSel, value, "none", NoArr, dataset_plugins,
                      TRUE, loads + 1)

\* Dataset._reset_data(value), lines 88-96, after `loads` _reload_data calls
reset_data(op, h, value, loads) ==
    LET w == prepare_write(value) IN
    /\ payload' = w.data                                      \* line 91
    /\ attributes' = update(attributes, w.attrs)              \* line 93
    /\ meta_plugins' = w.meta                                 \* line 94
    /\ handle' = [handle EXCEPT ![h].data_memmap = MapOfShape(w.data.shape)]
    /\ dlast' = DCall(op, h, NoSel, value, "none", NoArr, dataset_plugins,
                      TRUE, loads + 1)

\* The setter of Dataset.value, lines 128-134
set_value(h, value) ==
    /\ IF data_of(h).shape # value.shape                      \* line 130
       THEN reset_data("set_value", h, value, lazy_loads(h))
       ELSE setitem_body("set_value", h, Slice, value, TRUE)                \* line 134
    /\ UNCHANGED <<dataset_plugins, fsvars>>

\* The setter of Dataset.data, lines 108-110: self.value = value
data_setter(h, value) ==
    /\ IF data_of(h).shape # value.shape
       THEN reset_data("set_data", h, value, lazy_loads(h))
       ELSE setitem_body("set_data", h, Slice, value, TRUE)
    /\ UNCHANGED <<dataset_plugins, fsvars>>

\* The registered plugins change (a plugin is enabled or disabled, or the
\* store is opened by a process with other plugins).
register_plugins(plugins) ==
    /\ plugins # dataset_plugins
    /\ dataset_plugins' = plugins
    /\ dlast' = DCall("register", "A", NoSel, NoArr, "none", NoArr, <<>>, FALSE, 0)
    /\ UNCHANGED <<payload, attributes, meta_plugins, handle, fsvars>>

DatasetNext ==
    \/ \E h \in Handles, args \in Selectors : getitem(h, args)
    \/ \E h \in Handles, args \in Selectors, value \in Arrays : setitem(h, args, value)
    \/ \E h \in Handles, value \in Arrays : set_value(h, value)
    \/ \E plugins \in Registries : register_plugins(plugins)
    \/ \E h \in Handles : call_len(h)
    \/ \E h \in Handles : call_iter(h)
    \/ \E h \in Handles, value \in Arrays : data_setter(h, value)

\* Two handles opened on the same dataset directory.
TwoHandles == {"A", "B"}

\* The selectors the two handles use: the full range and the first element.
SharedSelectors == {Slice, Sel("index", 0)}

\* The calls of two handles on one dataset, in any order; no plugin is
\* registered.
SharedNext ==
    \/ \E h \in TwoHandles, args \in SharedSelectors : getitem(h, args)
    \/ \E h \in TwoHandles, args \in SharedSelectors, value \in Arrays :
          setitem(h, args, value)
    \/ \E h \in TwoHandles, value \in Arrays : set_value(h, value)
    \/ \E h \in TwoHandles : call_len(h)
    \/ \E h \in TwoHandles : call_iter(h)

----------------------------------------------------------------------------
(* Specifications *)

DatasetInit == FsInit /\ DsInit

\* For the object-directory layer the dataset is left alone: one will do.
Init ==
    /\ DatasetInit
    /\ payload = Arr(<<>>, <<0>>)
    /\ \A h \in Handles : handle[h].io_mode = READ_WRITE

\* the object-directory layer
Spec == Init /\ [][Next]_vars

\* raw directories
RawSpec == Init /\ [][RawNext]_vars

\* _create_object_directory and its crashes
CrashSpec == Init /\ [][CrashNext]_vars

\* two handles on one dataset
SharedInit == FsInit /\ DsInitWith(TwoHandles)
SharedSpec == SharedInit /\ [][SharedNext]_vars

\* a dataset
DatasetSpec == DatasetInit /\ [][DatasetNext]_vars

----------------------------------------------------------------------------
(* The claims on Dataset *)

\* the identifiers of the registered plugins
Enabled == {dataset_plugins[k] : k \in 1..Len(dataset_plugins)}

\* the identifiers in meta["plugins"] that are not registered
MissingPlugins == DOMAIN meta_plugins \ Enabled

\* C7: on a READ_ONLY handle every indexed write fails with
\* ReadOnlyViolation, for every selector and value, before any plugin's
\* write hook runs, and data.npy, the attribute sidecar and meta["plugins"]
\* stay as they were.
C7_ReadOnlyWriteRefused ==
    [][ \A h \in Handles :
        (dlast'.op = "setitem" /\ dlast'.h = h
            /\ handle[h].io_mode = READ_ONLY) =>
          /\ dlast'.err = "ReadOnlyViolation"
          /\ dlast'.hooks = <<>>
          /\ UNCHANGED <<payload, attributes, meta_plugins>>
      ]_vars

\* With plugins registered, a full-range write through a READ_ONLY handle
\* was refused.
C7_Witness ==
    /\ dlast.op = "setitem"
    /\ handle[dlast.h].io_mode = READ_ONLY
    /\ dlast.err = "ReadOnlyViolation"
    /\ dlast.sel = Slice
    /\ dataset_plugins # <<>>

\* what a full-range write of `value` leaves in an array of `shape`
Broadcast(value, shape) ==
    [i \in 1..Size(shape) |-> IF Len(value.flat) = 1 THEN value.flat[1] ELSE value.flat[i]]

\* C8: dataset.value = newArray on a handle that may write.  With the mapped
\* shape, data.npy is updated in place by the indexed write with the
\* full-range selector: it is not saved anew and the mapping is not replaced.
\* With another shape, data.npy is written whole and the handle mapped anew:
\* right afterwards dataset.shape is newArray's shape and a read returns
\* newArray's elements.
C8_ValueReassignment ==
    [][ \A h \in Handles, value \in Arrays :
        (dlast'.op = "set_value" /\ dlast'.h = h /\ dlast'.value = value
            /\ handle[h].io_mode = READ_WRITE) =>
          IF data_of(h).shape = value.shape
          THEN /\ dlast'.err = "none"
               /\ ~dlast'.saved
               /\ dlast'.loads = lazy_loads(h)
               /\ payload'.shape = payload.shape
               /\ payload'.flat = Broadcast(prepare_write(value).data, payload.shape)
          ELSE /\ dlast'.err = "none"
               /\ dlast'.saved
               /\ dlast'.loads = lazy_loads(h) + 1
               /\ handle'[h].data_memmap = MapOfShape(value.shape)
               /\ getitem_outcome(h, Slice)'.err = "none"
               /\ getitem_outcome(h, Slice)'.values = value
      ]_vars

\* the hooks of `plugins`, from the first to the last, over `values`
RECURSIVE InOrder(_, _, _)
InOrder(plugins, values, attrs) ==
    IF plugins = <<>> THEN values
    ELSE InOrder(Tail(plugins), plugin_prepare_read(Head(plugins), values, attrs), attrs)

\* what the selector of the last read picks from the mapped array
Selected ==
    LET a == mapped_array(handle[dlast.h].data_memmap) IN
    IF Len(a.shape) = 0 THEN [err |-> "none", values |-> a]
    ELSE np_getitem(a, dlast.sel)

\* C9 as stated: a read fails with PluginUnavailable if and only if a plugin
\* recorded in meta["plugins"] is not registered; no read hook has run then;
\* a read that succeeds returns the selected value after the registered
\* plugins' prepare_read hooks, in registration order.
C9_UnavailableIffMissing ==
    dlast.op = "getitem" =>
       /\ dlast.err = "PluginUnavailable" <=> MissingPlugins # {}
       /\ dlast.err = "PluginUnavailable" => dlast.hooks = <<>>
       /\ dlast.err = "none" =>
             /\ dlast.hooks = dataset_plugins
             /\ dlast.ret = InOrder(dataset_plugins, Selected.values, attributes)

\* C9, amended: a read whose selector the mapped array accepts fails with
\* PluginUnavailable if and only if a plugin recorded in meta["plugins"] is
\* not registered (a selector out of range fails with IndexError first, also
\* when a plugin is missing); no read hook has run then; a read that succeeds
\* returns the selected value after the registered plugins' prepare_read
\* hooks, in registration order.
C9_UnavailableIffMissingForValidSelector ==
    dlast.op = "getitem" =>
       /\ Selected.err = "none" =>
             (dlast.err = "PluginUnavailable" <=> MissingPlugins # {})
       /\ Selected.err # "none" => dlast.err = Selected.err
       /\ dlast.err # "none" => dlast.hooks = <<>>
       /\ dlast.err = "none" =>
             /\ dlast.hooks = dataset_plugins
             /\ dlast.ret = InOrder(dataset_plugins, Selected.values, attributes)

\* A read was refused although a plugin is registered: another one, recorded
\* by the last write, is not.
C9_Witness ==
    /\ dlast.op = "getitem"
    /\ dlast.err = "PluginUnavailable"
    /\ dataset_plugins # <<>>

\* the value the k-th registered plugin's prepare_write receives
RECURSIVE InputAt(_, _)
InputAt(k, value) ==
    IF k = 1 THEN value
    ELSE plugin_prepare_write(dataset_plugins[k - 1], InputAt(k - 1, value)).data

\* the plugins that report required = true when `value` is written
Reporting(value) ==
    { dataset_plugins[k] : k \in
        { j \in 1..Len(dataset_plugins) :
            plugin_prepare_write(dataset_plugins[j], InputAt(j, value)).meta.required } }

\* C10: after a write (indexed or whole) whose pipeline ran, meta["plugins"]
\* holds the identifier of every plugin that reported required = true in it
\* and of none that reported required = false; after a write in which no
\* plugin reported required = true, no set of registered plugins makes a
\* read fail with PluginUnavailable.
C10_OnlyRequiredRecorded ==
    (dlast.op \in {"setitem", "set_value"} /\ dlast.err # "ReadOnlyViolation") =>
       /\ \A id \in Enabled :
             id \in DOMAIN meta_plugins <=> id \in Reporting(dlast.value)
       /\ Reporting(dlast.value) = {} =>
             \A plugins \in Registries :
                DOMAIN meta_plugins \subseteq {plugins[k] : k \in 1..Len(plugins)}

\* A write ran through a plugin that reported required = false and one that
\* reported required = true.
C10_Witness ==
    /\ dlast.op = "setitem"
    /\ dlast.err = "none"
    /\ dataset_plugins = <<"tag", "flip">>
    /\ DOMAIN meta_plugins = {"flip"}

\* prepare_read of `plugin` undoes its prepare_write, on every array
Inverts(plugin) ==
    \A a \in Arrays :
       LET w == plugin_prepare_write(plugin, a) IN
       plugin_prepare_read(plugin, w.data, w.attrs) = a

\* `value` may be assigned to the selection `args` of an array of `shape`; a
\* dataset of rank 0 is read whatever the selector
Compatible(args, value, shape) ==
    IF shape = <<>> THEN Len(value.flat) = 1
    ELSE IF args.kind = "index"
    THEN args.i < Size(shape) /\ Len(value.flat) = 1
    ELSE Len(value.flat) = 1 \/ value.shape = shape

\* `value` as the selection `args` of an array of `shape` holds it
AsSelection(args, value, shape) ==
    IF shape = <<>> \/ args.kind = "index" THEN Arr(<<>>, <<value.flat[1]>>)
    ELSE Arr(shape, Broadcast(value, shape))

\* C12: on a READ_WRITE handle, with no plugin registered or only plugins
\* whose prepare_read inverts their prepare_write, an indexed write of a
\* value compatible with the selector succeeds, and reading the same
\* selector then returns the value written.
C12_RoundTrip ==
    (/\ dlast.op = "setitem"
     /\ handle[dlast.h].io_mode = READ_WRITE
     /\ \A k \in 1..Len(dataset_plugins) : Inverts(dataset_plugins[k])
     /\ Compatible(dlast.sel, dlast.value, handle[dlast.h].data_memmap.shape)) =>
       /\ dlast.err = "none"
       /\ getitem_outcome(dlast.h, dlast.sel).err = "none"
       /\ getitem_outcome(dlast.h, dlast.sel).values =
             AsSelection(dlast.sel, dlast.value, handle[dlast.h].data_memmap.shape)

\* the shape of the mapping the last call went through
MappedShape == handle[dlast.h].data_memmap.shape

\* what len(ds), iter(ds) and ds[selector] give when no plugin check stands
\* in their way
LenIterGetitem ==
    /\ dlast.op = "len" =>
          IF MappedShape = <<>> THEN dlast.err = "ScalarLengthError"
          ELSE dlast.err = "none" /\ dlast.ret = Arr(<<>>, <<MappedShape[1]>>)
    /\ dlast.op = "iter" =>
          IF MappedShape = <<>>
          THEN dlast.err = "ScalarIterationError" /\ dlast.ret.flat = <<>>
          ELSE /\ dlast.err = "none"
               /\ Len(dlast.ret.flat) = MappedShape[1]
               /\ \A i \in 1..MappedShape[1] :
                     LET r == getitem_outcome(dlast.h, Sel("index", i - 1)) IN
                     r.err = "none" /\ r.values = Arr(<<>>, <<dlast.ret.flat[i]>>)
    /\ (dlast.op = "getitem" /\ MappedShape = <<>>) =>
          /\ dlast.err = "none"
          /\ dlast.ret = InOrder(dataset_plugins,
                                 Arr(<<>>, payload.flat), attributes)

\* C13 as stated: on a scalar dataset len(ds) fails with ScalarLengthError,
\* iteration fails with ScalarIterationError before it yields anything, and
\* ds[selector] returns the scalar whatever the selector; on a dataset of
\* rank 1 len(ds) is the extent n of the first axis and iteration yields n
\* values, the i-th equal to ds[i].
C13_ScalarAndLength == LenIterGetitem

\* C13, amended: the same, for a dataset whose recorded plugins are all
\* registered; with a recorded plugin not registered, len(ds), iteration and
\* ds[selector] on a scalar fail with PluginUnavailable, and iteration yields
\* nothing.
C13_ScalarAndLengthWhenPluginsAvailable ==
    /\ MissingPlugins = {} => LenIterGetitem
    /\ (MissingPlugins # {} /\ (dlast.op \in {"len", "iter"}
            \/ (dlast.op = "getitem" /\ MappedShape = <<>>))) =>
          /\ dlast.err = "PluginUnavailable"
          /\ dlast.op = "iter" => dlast.ret.flat = <<>>

\* An iteration over a dataset of two elements, read through a plugin.
C13_Witness ==
    /\ dlast.op = "iter"
    /\ dlast.err = "none"
    /\ Len(dlast.ret.flat) = 2
    /\ dataset_plugins = <<"flip">>
    /\ "enc" \in DOMAIN attributes

\* C14: a handle's mapping is None from construction to its first access
\* of the data; a read, len, iteration or shape-preserving write loads the
\* file on that first access only and leaves the mapping alone afterwards;
\* the mapping is replaced only by the handle's own shape-changing
\* reassignment, never by a call on another handle; the file is mapped
\* read-only exactly when io_mode is READ_ONLY.
C14_LazyMappingPerHandle ==
    /\ \A h \in DOMAIN handle : handle[h].data_memmap = NoMap
    /\ [][ \A h \in DOMAIN handle :
           LET before == handle[h].data_memmap
               after == handle'[h].data_memmap
               reshaping == /\ dlast'.op = "set_value"
                            /\ data_of(h).shape # dlast'.value.shape
           IN
           /\ handle'[h].io_mode = handle[h].io_mode
           /\ handle'[h].mmap_mode = handle[h].mmap_mode
           /\ handle[h].mmap_mode = "r" <=> handle[h].io_mode = READ_ONLY
           /\ dlast'.h # h => after = before
           /\ (dlast'.h = h /\ reshaping) =>
                 /\ dlast'.saved
                 /\ after = MapOfShape(dlast'.value.shape)
           /\ (dlast'.h = h /\ ~reshaping) =>
                 /\ ~dlast'.saved
                 /\ before.mapped => (after = before /\ dlast'.loads = 0)
                 /\ ~before.mapped =>
                       IF after.mapped
                       THEN dlast'.loads = 1 /\ after = MapOfShape(payload.shape)
                       ELSE /\ dlast'.loads = 0
                            /\ dlast'.op = "setitem"
                            /\ dlast'.err = "ReadOnlyViolation"
         ]_vars

\* A shape-preserving write went through a mapping loaded earlier and kept,
\* although the other handle has saved the file in another shape since.
C14_Witness ==
    /\ dlast.op = "setitem"
    /\ dlast.err = "none"
    /\ dlast.loads = 0
    /\ handle[dlast.h].data_memmap.mapped
    /\ handle[dlast.h].data_memmap.shape # payload.shape

\* C15: no call on a handle sets or replaces the mapping of another handle
\* opened on the same directory: after A's shape-changing reassignment B's
\* cached mapping is the one B loaded, and B.shape is still the shape B
\* mapped, whatever the file holds now.
C15_HandlesShareNoMapping ==
    [][ \A a \in DOMAIN handle, b \in DOMAIN handle :
        (a # b /\ dlast'.h = a) =>
           /\ handle'[b] = handle[b]
           /\ handle[b].data_memmap.mapped =>
                 /\ getitem_outcome(b, Slice)'.err = "none"
                 /\ getitem_outcome(b, Slice)'.values.shape =
                       handle[b].data_memmap.shape
      ]_vars

\* A has saved the file in a new shape while B holds a mapping of the old
\* one.
C15_Witness ==
    /\ dlast.op = "set_value"
    /\ dlast.saved
    /\ dlast.h = "A"
    /\ "B" \in DOMAIN handle
    /\ handle["B"].data_memmap.mapped
    /\ handle["B"].data_memmap.shape # payload.shape
    /\ handle["A"].data_memmap.shape = payload.shape

\* C16: no call on a READ_ONLY handle changes what is stored: an indexed
\* write, and a reassignment through value or data of an array of the
\* mapped shape or of another shape, leave data.npy, the attribute sidecar
\* and meta["plugins"] as they were.
C16_ReadOnlyHandleNeverWrites ==
    [][ \A h \in DOMAIN handle :
        (dlast'.h = h /\ handle[h].io_mode = READ_ONLY
            /\ dlast'.op \in {"getitem", "len", "iter", "setitem",
                              "set_value", "set_data"}) =>
           UNCHANGED <<payload, attributes, meta_plugins>>
      ]_vars

\* C17: the handle that create_raw(name) returns on an object O denotes the
\* directory the call has made: its directory is O.directory/name, also for
\* an O that is not the root of the store.
C17_CreateRawHandleDenotesCreated ==
    (last.op = "create_raw" /\ last.err = "none") =>
       directory_of(last.ret.handle) = directory_of(last.obj) \o last.name

\* C18: require_raw(name) does not succeed for a name the object's
\* validation policy rejects, whether the target exists or not; under the
\* policy that rejects the empty name, "." and "..", separators and the
\* sidecar filenames, what a successful call denotes is a directory directly
\* below the object's own.
C18_RequireRawValidatesName ==
    (last.op = "require_raw" /\ last.err = "none") =>
       /\ assert_valid_name(last.name, last.obj)
       /\ last.obj.validate_name = "thorough" =>
             /\ Len(last.name) = 1
             /\ TargetOf(last) = At(directory_of(last.obj) \o last.name)
             /\ TargetOf(last).dir \in dirs

\* the attributes the k-th registered plugin contributes when `value` is
\* written
ContributedAt(k, value) ==
    plugin_prepare_write(dataset_plugins[k], InputAt(k, value)).attrs

\* C19: a successful write, indexed or whole, leaves in meta["plugins"]
\* exactly the plugins that reported required = true in that write, whatever
\* was recorded before, and merges the attributes the plugins contribute into
\* the sidecar: every other attribute keeps its value, and a key that several
\* plugins contribute holds the last one's value.
C19_MetaReplacedAttrsMerged ==
    [][ \A value \in Arrays :
        (dlast'.op \in {"setitem", "set_value", "set_data"}
            /\ dlast'.err = "none" /\ dlast'.value = value) =>
           LET n == Len(dataset_plugins)
               contributed == UNION {DOMAIN ContributedAt(k, value) : k \in 1..n}
           IN
           /\ DOMAIN meta_plugins' = Reporting(value)
           /\ DOMAIN attributes' = DOMAIN attributes \cup contributed
           /\ \A key \in DOMAIN attributes \ contributed :
                 attributes'[key] = attributes[key]
           /\ \A k \in 1..n : \A key \in DOMAIN ContributedAt(k, value) :
                 (\A j \in (k + 1)..n : key \notin DOMAIN ContributedAt(j, value))
                    => attributes'[key] = ContributedAt(k, value)[key]
      ]_vars

\* A write through the plugin tag alone: it has emptied meta["plugins"],
\* and the attribute an earlier write through flip left is still there.
C19_Witness ==
    /\ dlast.op = "setitem"
    /\ dlast.err = "none"
    /\ dataset_plugins = <<"tag">>
    /\ meta_plugins = EmptyMap
    /\ DOMAIN attributes = {"enc", "tag"}

\* C20: when the array assignment that ends an indexed write fails (the
\* selector is out of range, the value does not fit the selection), the
\* attribute sidecar and meta["plugins"] are after the call what they were
\* before it.
C20_FailedWriteLeavesSidecars ==
    [][ (dlast'.op = "setitem" /\ dlast'.err \in {"IndexError", "ValueError"}) =>
           UNCHANGED <<attributes, meta_plugins>>
      ]_vars

====
